---- MODULE Spec2Model ----
(***************************************************************************)
(* Model of toolchain/ios/swiftc.py: the build-step wrapper around the     *)
(* Swift compiler (conditional file writer, cache signature, derived-data  *)
(* cache directory, output file map, depfile merge, compile_module).       *)
(*                                                                         *)
(* Text is modelled as a sequence of one-character strings, so that the    *)
(* string operations of the source (concatenation, split, startswith,      *)
(* newline translation, ordering) are computed and not assumed.            *)
(***************************************************************************)
EXTENDS Integers, Sequences, FiniteSets, TLC

VARIABLES
  \* ---- FileWriter (one use of the context manager) ----
  fw_disk,      \* the target file: Absent or [data, readable]
  fw_before,    \* the target file when the FileWriter was constructed
  fw_buf,       \* self._stringio
  fw_pc,        \* "with" | "done" | "raised"
  fw_opened,    \* TRUE once the file was opened for writing (mtime changes)
  fw_exc,       \* the exception leaving the with-clause, "none" if none
  \* ---- build_signature (two invocations of the build step) ----
  sg_prev,      \* the earlier invocation: NoInvocation or [env, args, sig]
  sg_cur,       \* the later invocation: NoInvocation or [env, args, sig]
  \* ---- generate_output_file_map ----
  mp_args,      \* args: the parsed command line of the invocation
  mp_ofm,       \* output_file_map: [order, at], a dict with insertion order
  mp_reads,     \* keys whose 'dependencies' file generate_depfile opens
  mp_pc,        \* "start" | "mapped" | "assert" | "read"
  \* ---- generate_depfile ----
  dp_env,       \* [xcode_paths, src_dir]: what the step finds on the host
  dp_frags,     \* the 'dependencies' files named by the output file map
  dp_lines,     \* the (output, inputs) items written, in the order written
  dp_depfile,   \* the file at args.depfile_path
  dp_pc,        \* "start" | "done" | "raised"
  \* ---- compile_module: invocations of the build step on one host ----
  bs_args,      \* args and environment of the running invocation
  bs_root,      \* the directory tree at args.derived_data_dir
  bs_tmp,       \* the temporary directory: "none" | "exists" | "removed"
  bs_outcome,   \* how invoke_swift_compiler ended
  bs_frags,     \* the 'dependencies' files the compiler left
  bs_depfile,   \* [file, opened]: args.depfile_path and how often it was
                \* opened for writing
  bs_status,    \* exit status of the build step, -1 while it runs
  bs_pc,        \* "start" | "with" | "leaving" | "depfile" | "done" |
                \* "exited" | "raised"
  bs_run,       \* number of the invocation
  bs_start,     \* bs_root and bs_depfile when the invocation started
  bs_prev       \* the invocation before this one, as it ended

fw_vars == <<fw_disk, fw_before, fw_buf, fw_pc, fw_opened, fw_exc>>
sg_vars == <<sg_prev, sg_cur>>
mp_vars == <<mp_args, mp_ofm, mp_reads, mp_pc>>
dp_vars == <<dp_env, dp_frags, dp_lines, dp_depfile, dp_pc>>
bs_vars == <<bs_args, bs_root, bs_tmp, bs_outcome, bs_frags, bs_depfile,
             bs_status, bs_pc, bs_run, bs_start, bs_prev>>

vars == <<fw_vars, sg_vars, mp_vars, dp_vars, bs_vars>>

\* what the actions of one component leave unchanged
not_fw == <<sg_vars, mp_vars, dp_vars, bs_vars>>
not_sg == <<fw_vars, mp_vars, dp_vars, bs_vars>>
not_mp == <<fw_vars, sg_vars, dp_vars, bs_vars>>
not_dp == <<fw_vars, sg_vars, mp_vars, bs_vars>>
not_bs == <<fw_vars, sg_vars, mp_vars, dp_vars>>

\* The components are checked one at a time; the variables of the others rest.
Absent == [kind |-> "absent"]
NoInvocation == [kind |-> "none"]
EmptyDict == [order |-> <<>>, at |-> <<>>]

WriterIdle ==
  /\ fw_disk = Absent
  /\ fw_before = Absent
  /\ fw_buf = <<>>
  /\ fw_pc = "idle"
  /\ fw_opened = FALSE
  /\ fw_exc = "none"

SigIdle == sg_prev = NoInvocation /\ sg_cur = NoInvocation

MapIdle ==
  /\ mp_args = [kind |-> "none"]
  /\ mp_ofm = EmptyDict
  /\ mp_reads = <<>>
  /\ mp_pc = "idle"

DepIdle ==
  /\ dp_env = [kind |-> "none"]
  /\ dp_frags = <<>>
  /\ dp_lines = <<>>
  /\ dp_depfile = Absent
  /\ dp_pc = "idle"

BuildIdle ==
  /\ bs_args = [kind |-> "none"]
  /\ bs_root = Absent
  /\ bs_tmp = "none"
  /\ bs_outcome = [kind |-> "none"]
  /\ bs_frags = <<>>
  /\ bs_depfile = [file |-> Absent, opened |-> 0]
  /\ bs_status = -1
  /\ bs_pc = "idle"
  /\ bs_run = 0
  /\ bs_start = [kind |-> "none"]
  /\ bs_prev = [kind |-> "none"]

----------------------------------------------------------------------------
\* Bounds of the model.

\* longest content written through a FileWriter in SpecWriter
MaxContent == 2
\* longest command-line argument, and longest argument vector, in SpecSig
MaxArgLen == 2
MaxArgs == 2
\* most source files on one command line in SpecMap
MaxSources == 3
\* most 'dependencies' files read by one generate_depfile in SpecDep
MaxFragments == 2
\* most successive invocations of the build step in Spec
MaxRuns == 2

----------------------------------------------------------------------------
\* Text helpers.

CR == "\r"
LF == "\n"

RECURSIVE Concat(_)
\* ''.join(parts) for a sequence of texts
Concat(parts) ==
  IF parts = <<>> THEN <<>> ELSE Head(parts) \o Concat(Tail(parts))

\* all texts over `alphabet` of length at most n
TextsUpTo(alphabet, n) == UNION {[1..k -> alphabet] : k \in 0..n}

\* the characters of the model in code point order (ASCII)
Ascii ==
  <<"\n", "\r", " ", "-", ".", "/", "0", "1", "2", "3", "4", "5", "6", "7",
    "8", "9", ":", "=", "A", "B", "C", "D", "E", "F", "G", "H", "I", "J", "K",
    "L", "M", "N", "O", "P", "Q", "R", "S", "T", "U", "V", "W", "X", "Y", "Z",
    "_", "a", "b", "c", "d", "e", "f", "g", "h", "i", "j", "k", "l", "m", "n",
    "o", "p", "q", "r", "s", "t", "u", "v", "w", "x", "y", "z">>

\* order-preserving stand-in for ord(c)
OrdTable ==
  [c \in {Ascii[i] : i \in 1..Len(Ascii)} |->
     CHOOSE i \in 1..Len(Ascii) : Ascii[i] = c]
Ord(c) == OrdTable[c]

RECURSIVE TextLess(_, _)
\* a < b for Python str: lexicographic by code point
TextLess(a, b) ==
  IF b = <<>> THEN FALSE
  ELSE IF a = <<>> THEN TRUE
  ELSE IF Head(a) = Head(b) THEN TextLess(Tail(a), Tail(b))
  ELSE Ord(Head(a)) < Ord(Head(b))

RECURSIVE SortedTexts(_)
\* sorted(S) for a set of texts
SortedTexts(S) ==
  IF S = {} THEN <<>>
  ELSE LET least == CHOOSE x \in S : \A y \in S : x = y \/ TextLess(x, y)
       IN <<least>> \o SortedTexts(S \ {least})

\* s.startswith(prefix)
StartsWith(s, prefix) ==
  Len(prefix) <= Len(s) /\ SubSeq(s, 1, Len(prefix)) = prefix

\* s.endswith(suffix)
EndsWith(s, suffix) ==
  Len(suffix) <= Len(s)
    /\ SubSeq(s, Len(s) - Len(suffix) + 1, Len(s)) = suffix

Digits == <<"0", "1", "2", "3", "4", "5", "6", "7", "8", "9">>

RECURSIVE IntToText(_)
\* str(i) for i >= 0
IntToText(i) ==
  IF i < 10 THEN <<Digits[i + 1]>>
  ELSE IntToText(i \div 10) \o <<Digits[(i % 10) + 1]>>

\* the largest i with s[i] = c, or 0: s.rfind(c) + 1
LastIndexOf(s, c) ==
  LET hits == {i \in 1..Len(s) : s[i] = c}
  IN IF hits = {} THEN 0 ELSE CHOOSE i \in hits : \A j \in hits : j <= i

RECURSIVE SplitOn(_, _)
\* s.split(c) for a one-character separator c
SplitOn(s, c) ==
  LET hits == {i \in 1..Len(s) : s[i] = c} IN
    IF hits = {} THEN <<s>>
    ELSE LET i == CHOOSE k \in hits : \A j \in hits : k <= j
         IN <<SubSeq(s, 1, i - 1)>> \o SplitOn(SubSeq(s, i + 1, Len(s)), c)

RECURSIVE JoinWith(_, _)
\* c.join(parts)
JoinWith(parts, c) ==
  IF parts = <<>> THEN <<>>
  ELSE IF Len(parts) = 1 THEN parts[1]
  ELSE parts[1] \o c \o JoinWith(Tail(parts), c)

\* the least i with sep found at s[i..], or 0: s.find(sep) + 1
FindText(s, sep) ==
  LET hits == {i \in 1..(Len(s) - Len(sep) + 1) :
                 SubSeq(s, i, i + Len(sep) - 1) = sep}
  IN IF hits = {} THEN 0 ELSE CHOOSE i \in hits : \A j \in hits : i <= j

RECURSIVE SplitText(_, _, _)
\* s.split(sep, maxsplit)
SplitText(s, sep, maxsplit) ==
  LET i == FindText(s, sep) IN
    IF maxsplit = 0 \/ i = 0 THEN <<s>>
    ELSE <<SubSeq(s, 1, i - 1)>>
         \o SplitText(SubSeq(s, i + Len(sep), Len(s)), sep, maxsplit - 1)

Whitespace == {" ", "\n", "\r", "\t"}

RECURSIVE SplitWhitespace(_, _)
\* s.split(): the maximal runs of non-whitespace characters (`word` is the
\* run being read)
SplitWhitespace(s, word) ==
  IF s = <<>> THEN (IF word = <<>> THEN <<>> ELSE <<word>>)
  ELSE IF Head(s) \in Whitespace
    THEN (IF word = <<>> THEN <<>> ELSE <<word>>)
         \o SplitWhitespace(Tail(s), <<>>)
    ELSE SplitWhitespace(Tail(s), Append(word, Head(s)))

RECURSIVE TextLines(_)
\* the lines a text stream iterates over, each with its line end
TextLines(text) ==
  IF text = <<>> THEN <<>>
  ELSE LET i == FindText(text, <<"\n">>) IN
    IF i = 0 THEN <<text>>
    ELSE <<SubSeq(text, 1, i)>> \o TextLines(SubSeq(text, i + 1, Len(text)))

\* the set of elements of a sequence
Range(seq) == {seq[i] : i \in 1..Len(seq)}

----------------------------------------------------------------------------
\* os.path (posixpath) as used by the source.

SEP == "/"

\* os.path.basename(p)
basename(p) == SubSeq(p, LastIndexOf(p, SEP) + 1, Len(p))

\* os.path.splitext(p): the extension starts at the last dot of the last
\* component, unless that component has only dots before it
splitext(p) ==
  LET sep == LastIndexOf(p, SEP)
      dot == LastIndexOf(p, ".")
  IN IF dot > sep /\ \E k \in (sep + 1)..(dot - 1) : p[k] # "."
       THEN <<SubSeq(p, 1, dot - 1), SubSeq(p, dot, Len(p))>>
       ELSE <<p, <<>>>>

\* os.path.isabs(p)
isabs(p) == StartsWith(p, <<SEP>>)

\* mutant of join: the last component is dropped
join_first(a, b) == a

\* os.path.join(a, b)
join(a, b) ==
  IF isabs(b) THEN b
  ELSE IF a = <<>> \/ a[Len(a)] = SEP THEN a \o b
  ELSE a \o <<SEP>> \o b

RECURSIVE NormComponents(_, _, _)
\* the loop of os.path.normpath over the components of the path
NormComponents(comps, new_comps, absolute) ==
  IF comps = <<>> THEN new_comps
  ELSE LET comp == Head(comps) IN
    IF comp = <<>> \/ comp = <<".">>
      THEN NormComponents(Tail(comps), new_comps, absolute)
    ELSE IF comp # <<".", ".">>
            \/ (~absolute /\ new_comps = <<>>)
            \/ (new_comps # <<>> /\ new_comps[Len(new_comps)] = <<".", ".">>)
      THEN NormComponents(Tail(comps), Append(new_comps, comp), absolute)
    ELSE IF new_comps # <<>>
      THEN NormComponents(Tail(comps),
                          SubSeq(new_comps, 1, Len(new_comps) - 1), absolute)
    ELSE NormComponents(Tail(comps), new_comps, absolute)

\* os.path.normpath(p) (a path starting with exactly two slashes is not drawn)
normpath(p) ==
  LET comps == NormComponents(SplitOn(p, SEP), <<>>, isabs(p))
      body == JoinWith(comps, <<SEP>>)
  IN IF isabs(p) THEN <<SEP>> \o body
     ELSE IF body = <<>> THEN <<".">> ELSE body

\* os.getcwd(): the build directory the step runs in
Cwd == <<"/", "w">>

\* os.path.abspath(p)
abspath(p) == normpath(IF isabs(p) THEN p ELSE join(Cwd, p))

\* the non-empty components of a path: [x for x in p.split(sep) if x]
Components(p) == SelectSeq(SplitOn(p, SEP), LAMBDA x : x # <<>>)

\* len(os.path.commonprefix([a, b])) for two lists of components
CommonLen(a, b) ==
  LET same == {n \in 0..Len(a) : n <= Len(b) /\ SubSeq(a, 1, n) = SubSeq(b, 1, n)}
  IN CHOOSE n \in same : \A m \in same : m <= n

\* os.path.relpath(path, start)
relpath(path, start) ==
  LET start_list == Components(abspath(start))
      path_list == Components(abspath(path))
      i == CommonLen(start_list, path_list)
      rel_list == [k \in 1..(Len(start_list) - i) |-> <<".", ".">>]
                    \o SubSeq(path_list, i + 1, Len(path_list))
  IN IF rel_list = <<>> THEN <<".">> ELSE JoinWith(rel_list, <<SEP>>)

----------------------------------------------------------------------------
\* FileWriter (src/toolchain/ios/swiftc.py:27-63)

\* a regular file holding `data`; `readable` is FALSE when open()/read()
\* for comparison raises (permissions, undecodable bytes)
RegularFile(data, readable) ==
  [kind |-> "file", data |-> data, readable |-> readable]

\* os.linesep of the host (the tool runs on POSIX hosts)
LineSep == <<LF>>

RECURSIVE ReadText(_)
\* open(path, encoding=...).read(): text mode with newline=None translates
\* "\r\n" and a lone "\r" to "\n" on input
ReadText(data) ==
  IF data = <<>> THEN <<>>
  ELSE IF Head(data) = CR
    THEN <<LF>> \o ReadText(IF Len(data) >= 2 /\ data[2] = LF
                            THEN Tail(Tail(data)) ELSE Tail(data))
    ELSE <<Head(data)>> \o ReadText(Tail(data))

RECURSIVE WriteText(_)
\* open(path, 'w', encoding=...).write(text): text mode with newline=None
\* writes every "\n" as os.linesep and everything else unchanged
WriteText(text) ==
  IF text = <<>> THEN <<>>
  ELSE (IF Head(text) = LF THEN LineSep ELSE <<Head(text)>>)
       \o WriteText(Tail(text))

\* what can go wrong when the new content is written: nothing, open(..., 'w')
\* raises before truncating, or the write raises after the file was truncated
\* and `keep` characters reached the disk
NoFault == [kind |-> "none", keep |-> 0]
OpenFault == [kind |-> "open", keep |-> 0]
WriteFault(k) == [kind |-> "write", keep |-> k]
Faults(n) == {NoFault, OpenFault} \cup {WriteFault(k) : k \in 0..n}

\* os.path.exists(self._filepath)
Exists(file) == file.kind # "absent"

\* the comparison of __exit__, lines 52-57: TRUE when the write is skipped
SameAsOld(file, new_content) ==
  Exists(file) /\ ReadText(file.data) = new_content

\* lines 59-60: open(self._filepath, 'w') and stream.write(new_content)
WriteNew(file, new_content, fault) ==
  CASE fault.kind = "none" ->
         [file |-> RegularFile(WriteText(new_content), TRUE),
          opened |-> TRUE, exc |-> "none"]
    [] fault.kind = "open" ->
         [file |-> file, opened |-> FALSE, exc |-> "OSError"]
    [] OTHER ->
         [file |-> RegularFile(SubSeq(WriteText(new_content), 1, fault.keep),
                               TRUE),
          opened |-> TRUE, exc |-> "OSError"]

\* FileWriter.__exit__ without a pending exception, lines 51-60; the result is
\* the file afterwards, whether it was opened for writing, and the exception
FileWriter_exit(file, new_content, fault) ==
  IF Exists(file) /\ ~file.readable
    THEN [file |-> file, opened |-> FALSE, exc |-> "OSError"]
  ELSE IF SameAsOld(file, new_content)
    THEN [file |-> file, opened |-> FALSE, exc |-> "none"]
  ELSE WriteNew(file, new_content, fault)

\* a write fault is possible only part-way through non-empty content
FaultsFor(new_content) ==
  {f \in Faults(MaxContent) : f.kind = "write" => f.keep < Len(new_content)}

----------------------------------------------------------------------------
\* SpecWriter: one use of FileWriter in a with-clause.

WriterAlphabet == {"a", CR, LF}
WriterContents == TextsUpTo(WriterAlphabet, MaxContent)

WriterFiles ==
  {Absent} \cup {RegularFile(d, r) : d \in WriterContents, r \in BOOLEAN}

\* FileWriter(filepath), lines 42-45, entering the with-clause
WriterInit ==
  /\ fw_disk \in WriterFiles
  /\ fw_before = fw_disk
  /\ fw_buf = <<>>
  /\ fw_pc = "with"
  /\ fw_opened = FALSE
  /\ fw_exc = "none"
  /\ SigIdle /\ MapIdle /\ DepIdle /\ BuildIdle

\* FileWriter.write, lines 62-63
FileWriter_write(data) ==
  /\ fw_pc = "with"
  /\ Len(fw_buf) + Len(data) <= MaxContent
  /\ fw_buf' = fw_buf \o data
  /\ UNCHANGED <<fw_disk, fw_before, fw_pc, fw_opened, fw_exc, not_fw>>

\* the with-clause raises: __exit__ is called with the exception, lines 48-49,
\* and returns None, so the exception propagates
WithClauseRaises ==
  /\ fw_pc = "with"
  /\ fw_pc' = "raised"
  /\ fw_exc' = "body"
  /\ UNCHANGED <<fw_disk, fw_before, fw_buf, fw_opened, not_fw>>

\* the with-clause completes: __exit__ without exception, lines 51-60
WithClauseCompletes(fault) ==
  /\ fw_pc = "with"
  /\ LET r == FileWriter_exit(fw_disk, fw_buf, fault) IN
       /\ fw_disk' = r.file
       /\ fw_opened' = r.opened
       /\ fw_exc' = r.exc
       /\ fw_pc' = IF r.exc = "none" THEN "done" ELSE "raised"
  /\ UNCHANGED <<fw_before, fw_buf, not_fw>>

WriterNext ==
  \/ \E data \in WriterContents \ {<<>>} : FileWriter_write(data)
  \/ WithClauseRaises
  \/ \E fault \in FaultsFor(fw_buf) : WithClauseCompletes(fault)

SpecWriter == WriterInit /\ [][WriterNext]_vars

----------------------------------------------------------------------------
\* Claims about FileWriter (checked under SpecWriter).

\* C4: a with-clause that completes without exception leaves the target file
\* with exactly the new content, and the file is opened for writing only when
\* it was absent or its previous content differed from the new content (when
\* the previous content equals the new content it is not opened for writing).
C4_WritesExactlyOnChange ==
  fw_pc = "done" =>
    /\ Exists(fw_disk) /\ fw_disk.data = fw_buf
    /\ fw_opened => (~Exists(fw_before) \/ fw_before.data # fw_buf)

\* C5: every failing use of FileWriter (the with-clause raises, the read for
\* comparison fails, the write fails part-way) leaves the target file exactly
\* as it was before.
C5_FailureLeavesFileUntouched ==
  fw_pc = "raised" => fw_disk = fw_before

----------------------------------------------------------------------------
\* build_signature (src/toolchain/ios/swiftc.py:112-125)

VERSION_SUFFIX == <<"_", "V", "E", "R", "S", "I", "O", "N">>
DEVELOPER_DIR ==
  <<"D", "E", "V", "E", "L", "O", "P", "E", "R", "_", "D", "I", "R">>

\* line 121: key.endswith('_VERSION') or key == 'DEVELOPER_DIR'
IncludedKey(key) == EndsWith(key, VERSION_SUFFIX) \/ key = DEVELOPER_DIR

RECURSIVE EnvUpdates(_, _)
\* lines 120-122: the bytes of the m.update calls for the keys, in order
EnvUpdates(env, keys) ==
  IF keys = <<>> THEN <<>>
  ELSE (IF IncludedKey(Head(keys))
          THEN Head(keys) \o <<"=">> \o env[Head(keys)]
          ELSE <<>>)
       \o EnvUpdates(env, Tail(keys))

RECURSIVE ArgUpdates(_, _)
\* lines 123-124: the bytes of m.update(f'{i}={arg}') for args[i..]
ArgUpdates(args, i) ==
  IF i >= Len(args) THEN <<>>
  ELSE IntToText(i) \o <<"=">> \o args[i + 1] \o ArgUpdates(args, i + 1)

\* everything fed to the digest, in order (successive m.update calls hash the
\* concatenation of their arguments)
SignatureBytes(env, args) ==
  EnvUpdates(env, SortedTexts(DOMAIN env)) \o ArgUpdates(args, 0)

\* hashlib.sha1(...).hexdigest(), idealised as collision-free: the digest
\* determines the bytes that were hashed ("#" marks a digest; it occurs in
\* no other name)
Sha1Hex(bytes) == <<"#">> \o bytes

\* build_signature(env, args)
build_signature(env, args) == Sha1Hex(SignatureBytes(env, args))

----------------------------------------------------------------------------
\* SpecSig: two invocations of the build step, each computing its signature.

SigAlphabet == {"1", "="}
SigArgs == TextsUpTo(SigAlphabet, MaxArgLen)
SigArgVectors == UNION {[1..n -> SigArgs] : n \in 0..MaxArgs}

A_VERSION == <<"A">> \o VERSION_SUFFIX
HOME == <<"H", "O", "M", "E">>
SigEnvKeys == {A_VERSION, DEVELOPER_DIR, HOME}
SigEnvValues == {<<"1">>}
SigEnvs == UNION {[ks -> SigEnvValues] : ks \in SUBSET SigEnvKeys}

\* the environment variables that build_signature reads
IncludedEnv(env) == [k \in {x \in DOMAIN env : IncludedKey(x)} |-> env[k]]

SigInit ==
  /\ sg_prev = NoInvocation
  /\ sg_cur = NoInvocation
  /\ WriterIdle /\ MapIdle /\ DepIdle /\ BuildIdle

\* main, line 543: build_signature(os.environ, args) for one invocation
Invoke(env, args) ==
  /\ sg_prev = NoInvocation
  /\ sg_prev' = sg_cur
  /\ sg_cur' = [kind |-> "invocation", env |-> env, args |-> args,
                sig |-> build_signature(env, args)]
  /\ UNCHANGED not_sg

SigNext == \E env \in SigEnvs, args \in SigArgVectors : Invoke(env, args)

SpecSig == SigInit /\ [][SigNext]_vars

\* C6: two invocations whose argument vectors differ in any way, or whose
\* included environment variables differ in name set or value, get different
\* signatures (the bytes fed to the digest encode them injectively).
C6_SignatureInjective ==
  (sg_prev # NoInvocation /\ sg_cur # NoInvocation) =>
    ((sg_prev.args # sg_cur.args
        \/ IncludedEnv(sg_prev.env) # IncludedEnv(sg_cur.env))
      => sg_prev.sig # sg_cur.sig)

----------------------------------------------------------------------------
\* The output file map (src/toolchain/ios/swiftc.py:128-192)

SWIFT == <<".", "s", "w", "i", "f", "t">>
EXT_O == <<".", "o">>
EXT_D == <<".", "d">>
EXT_DIA == <<".", "d", "i", "a">>
EXT_SWIFTDEPS == <<".", "s", "w", "i", "f", "t", "d", "e", "p", "s">>
EXT_SWIFTCONSTVALUES ==
  <<".", "s", "w", "i", "f", "t", "c", "o", "n", "s", "t", "v", "a", "l", "u",
    "e", "s">>

\* a dict keeps its keys in insertion order; assigning to a key that is
\* already there replaces the value and keeps the key's place
DictSet(d, k, v) ==
  [order |-> IF k \in DOMAIN d.at THEN d.order ELSE Append(d.order, k),
   at |-> [x \in DOMAIN d.at \cup {k} |-> IF x = k THEN v ELSE d.at[x]]]

\* list(d.values())
DictValues(d) == [i \in 1..Len(d.order) |-> d.at[d.order[i]]]

\* line 135: the assertion on the extension of a source file
AcceptedSource(filename) == splitext(filename)[2] = SWIFT

\* mutant of PerFileOutputs: the test of line 145 inverted
PerFileOutputs_inverted(args) == args.whole_module_optimization

\* line 145: the per-file fields are written unless the whole module is
\* compiled at once
PerFileOutputs(args) == ~args.whole_module_optimization

\* generate_source_output_file_map_fragment(args, filename), lines 136-153
generate_source_output_file_map_fragment(args, filename) ==
  LET base == splitext(basename(filename))[1]
      rel_name == join(args.target_out_dir, base)
      out_name == abspath(rel_name)
      fragment == ("index-unit-output-path" :> (<<SEP>> \o rel_name \o EXT_O))
                    @@ ("object" :> (out_name \o EXT_O))
  IN IF PerFileOutputs(args)
       THEN ("const-values" :> (out_name \o EXT_SWIFTCONSTVALUES))
              @@ ("dependencies" :> (out_name \o EXT_D))
              @@ ("diagnostics" :> (out_name \o EXT_DIA))
              @@ ("swift-dependencies" :> (out_name \o EXT_SWIFTDEPS))
              @@ fragment
       ELSE fragment

\* generate_module_output_file_map_fragment(args), lines 162-179
generate_module_output_file_map_fragment(args) ==
  LET out_name == abspath(join(args.target_out_dir, args.module_name)) IN
    IF args.whole_module_optimization
      THEN ("const-values" :> (out_name \o EXT_SWIFTCONSTVALUES))
             @@ ("dependencies" :> (out_name \o EXT_D))
             @@ ("diagnostics" :> (out_name \o EXT_DIA))
             @@ ("swift-dependencies" :> (out_name \o EXT_SWIFTDEPS))
      ELSE ("emit-module-dependencies" :> (out_name \o EXT_D))
             @@ ("emit-module-diagnostics" :> (out_name \o EXT_DIA))
             @@ ("swift-dependencies" :> (out_name \o EXT_SWIFTDEPS))

\* mutant of SourceKey: the record is stored under the file's basename
SourceKey_basename(filename) == basename(filename)

\* line 191: the key a source file's fragment is stored under
SourceKey(filename) == filename

RECURSIVE AddSources(_, _, _)
\* the loop of generate_output_file_map, lines 189-191
AddSources(output_file_map, args, sources) ==
  IF sources = <<>> THEN output_file_map
  ELSE AddSources(
         DictSet(output_file_map, SourceKey(Head(sources)),
                 generate_source_output_file_map_fragment(args, Head(sources))),
         args, Tail(sources))

\* generate_output_file_map(args), lines 188-192
generate_output_file_map(args) ==
  AddSources(DictSet(EmptyDict, <<>>,
                     generate_module_output_file_map_fragment(args)),
             args, args.sources)

\* value.get('dependencies', None) of generate_depfile, line 398
DependenciesOf(value) ==
  IF "dependencies" \in DOMAIN value THEN value["dependencies"] ELSE <<>>

\* generate_depfile, lines 397-400: the keys of the records whose
\* 'dependencies' file is opened, in the order it opens them
FragmentsRead(output_file_map) ==
  SelectSeq(output_file_map.order,
            LAMBDA k : DependenciesOf(output_file_map.at[k]) # <<>>)

----------------------------------------------------------------------------
\* SpecMap: generate_output_file_map for one command line, then the reads of
\* generate_depfile.

MapSourcePaths ==
  {<<"a">> \o SWIFT, <<"M">> \o SWIFT, <<"x", "/", "a">> \o SWIFT,
   <<"x", "/", "M">> \o SWIFT, <<"a", ".", "c">>, <<"x", "/">> \o SWIFT}

\* the positional arguments: nargs='+', line 538
MapSourceLists == UNION {[1..n -> MapSourcePaths] : n \in 1..MaxSources}

MapArgs ==
  {[kind |-> "args", sources |-> srcs, whole_module_optimization |-> wmo,
    module_name |-> <<"M">>, target_out_dir |-> <<"o">>] :
     srcs \in MapSourceLists, wmo \in BOOLEAN}

MapInit ==
  /\ mp_args \in MapArgs
  /\ mp_ofm = EmptyDict
  /\ mp_reads = <<>>
  /\ mp_pc = "start"
  /\ WriterIdle /\ SigIdle /\ DepIdle /\ BuildIdle

\* compile_module, line 424: output_file_map = generate_output_file_map(args);
\* the assertion of line 135 ends the step when a source is not a .swift file
GenerateOutputFileMap ==
  /\ mp_pc = "start"
  /\ IF \A i \in 1..Len(mp_args.sources) : AcceptedSource(mp_args.sources[i])
       THEN /\ mp_ofm' = generate_output_file_map(mp_args)
            /\ mp_pc' = "mapped"
       ELSE /\ mp_ofm' = mp_ofm
            /\ mp_pc' = "assert"
  /\ UNCHANGED <<mp_args, mp_reads, not_mp>>

\* generate_depfile, lines 396-400: the fragments it opens
ReadFragments ==
  /\ mp_pc = "mapped"
  /\ mp_reads' = FragmentsRead(mp_ofm)
  /\ mp_pc' = "read"
  /\ UNCHANGED <<mp_args, mp_ofm, not_mp>>

MapNext == GenerateOutputFileMap \/ ReadFragments

SpecMap == MapInit /\ [][MapNext]_vars

Mapped == mp_pc \in {"mapped", "read"}

\* C7: for every accepted list of sources the map has exactly len(sources)+1
\* entries, one per source plus the module record under the empty key, which
\* differs from every source key.
C7_OneEntryPerListedSource ==
  Mapped =>
    /\ Cardinality(DOMAIN mp_ofm.at) = Len(mp_args.sources) + 1
    /\ <<>> \in DOMAIN mp_ofm.at
    /\ <<>> \notin Range(mp_args.sources)

\* C7 as amended: the map has exactly one entry per distinct source path plus
\* the module record under the empty key, which differs from every source key;
\* that is len(sources)+1 entries exactly when no source path is repeated.
C7_OneEntryPerDistinctSource ==
  Mapped =>
    /\ DOMAIN mp_ofm.at = Range(mp_args.sources) \cup {<<>>}
    /\ <<>> \notin Range(mp_args.sources)
    /\ Cardinality(DOMAIN mp_ofm.at) = Cardinality(Range(mp_args.sources)) + 1
    /\ (Cardinality(Range(mp_args.sources)) = Len(mp_args.sources)
          <=> Cardinality(DOMAIN mp_ofm.at) = Len(mp_args.sources) + 1)

\* C7 witness: a map was generated for a command line that repeats a source
\* next to a different one
C7_Witness ==
  /\ Mapped
  /\ Len(mp_args.sources) = 3
  /\ Cardinality(Range(mp_args.sources)) = 2
\* C8: with whole-module optimization on, the module record has a
\* 'dependencies' field and no source record has one; with it off, every
\* source record has its own 'dependencies', 'diagnostics' and
\* 'swift-dependencies' fields and the module record has no 'dependencies'
\* field. So generate_depfile opens exactly one fragment, the module's, in
\* whole-module mode, and exactly one fragment per source record otherwise.
C8_DependenciesFollowMode ==
  Mapped =>
    LET at == mp_ofm.at
        srcs == Range(mp_args.sources)
    IN /\ IF mp_args.whole_module_optimization
            THEN /\ "dependencies" \in DOMAIN at[<<>>]
                 /\ \A f \in srcs : "dependencies" \notin DOMAIN at[f]
            ELSE /\ "dependencies" \notin DOMAIN at[<<>>]
                 /\ \A f \in srcs :
                      {"dependencies", "diagnostics", "swift-dependencies"}
                        \subseteq DOMAIN at[f]
       /\ mp_pc = "read" =>
            IF mp_args.whole_module_optimization
              THEN mp_reads = <<<<>>>>
              ELSE /\ Range(mp_reads) = srcs
                   /\ Len(mp_reads) = Cardinality(srcs)

\* C8 witness: without whole-module optimization, the fragments of two
\* different sources were opened
C8_Witness ==
  /\ mp_pc = "read"
  /\ ~mp_args.whole_module_optimization
  /\ Len(mp_reads) = 2

\* the paths a record of the map declares
Artifacts(fragment) == {fragment[f] : f \in DOMAIN fragment}

\* the name a source's outputs are derived from, line 136
Stem(filename) == splitext(basename(filename))[1]

\* C11 as stated: no artifact path is declared twice: two distinct source
\* records differ in every field they share, and no path of a source record
\* is a path of the module record
C11_NoArtifactDeclaredTwice ==
  Mapped =>
    LET at == mp_ofm.at
        srcs == DOMAIN at \ {<<>>}
    IN /\ \A k1, k2 \in srcs :
            k1 # k2 =>
              \A f \in DOMAIN at[k1] \cap DOMAIN at[k2] : at[k1][f] # at[k2][f]
       /\ \A k \in srcs : Artifacts(at[k]) \cap Artifacts(at[<<>>]) = {}

\* C11, what does hold: two sources whose basenames without extension differ
\* share no artifact path, and a source shares none with the module record
\* when its basename without extension is not the module name or when the
\* whole module is compiled at once
C11_DistinctStemsDistinctArtifacts ==
  Mapped =>
    LET at == mp_ofm.at
        srcs == DOMAIN at \ {<<>>}
    IN /\ \A k1, k2 \in srcs :
            Stem(k1) # Stem(k2)
              => Artifacts(at[k1]) \cap Artifacts(at[k2]) = {}
       /\ \A k \in srcs :
            (Stem(k) # mp_args.module_name
               \/ mp_args.whole_module_optimization)
              => Artifacts(at[k]) \cap Artifacts(at[<<>>]) = {}

\* C11 witness: a map with per-file outputs for two sources of different
\* basenames, one of them in a subdirectory
C11_Witness ==
  /\ Mapped
  /\ ~mp_args.whole_module_optimization
  /\ {<<"x", "/", "a">> \o SWIFT, <<"M">> \o SWIFT} \subseteq DOMAIN mp_ofm.at


----------------------------------------------------------------------------
\* generate_depfile (src/toolchain/ios/swiftc.py:375-415)

\* line 393: out_dir = os.getcwd() + os.sep
OutDir == Cwd \o <<SEP>>

\* line 394: src_dir = os.path.abspath(args.src_dir) + os.path.sep
SrcDir(env) == abspath(env.src_dir) \o <<SEP>>

RECURSIVE RewriteXcode(_, _)
\* lines 406-408: the loop over xcode_paths, each a [real, link] pair of
\* prefixes ending in os.sep (lines 386-391)
RewriteXcode(path, xcode_paths) ==
  IF xcode_paths = <<>> THEN path
  ELSE LET x == Head(xcode_paths) IN
    RewriteXcode(IF StartsWith(path, x.real)
                   THEN x.link \o SubSeq(path, Len(x.real) + 1, Len(path))
                   ELSE path,
                 Tail(xcode_paths))

\* lines 406-410: the path as it is added to the set of inputs
RewriteInput(path, env) ==
  LET p == RewriteXcode(path, env.xcode_paths) IN
    IF StartsWith(p, SrcDir(env)) \/ StartsWith(p, OutDir)
      THEN relpath(p, OutDir)
      ELSE p

\* line 403: output = os.path.relpath(output, out_dir)
RewriteOutput(output) == relpath(output, OutDir)

\* line 396: depfile_content = collections.defaultdict(set); a set is kept
\* as the sequence of its elements in the order they were first added
NoContent == [order |-> <<>>, at |-> <<>>, err |-> FALSE]

\* line 411: depfile_content[output].add(path); the entry of `output` comes
\* into being with the first path added to it
AddInput(content, output, path) ==
  LET old == IF output \in DOMAIN content.at THEN content.at[output] ELSE <<>>
      new == IF path \in Range(old) THEN old ELSE Append(old, path)
      d == DictSet(content, output, new)
  IN [order |-> d.order, at |-> d.at, err |-> content.err]

RECURSIVE AddInputs(_, _, _, _)
\* the loop of lines 405-411 over inputs.split()
AddInputs(content, output, paths, env) ==
  IF paths = <<>> THEN content
  ELSE AddInputs(AddInput(content, output, RewriteInput(Head(paths), env)),
                 output, Tail(paths), env)

\* lines 402-411 for one line of a fragment; unpacking anything but two
\* parts raises ValueError
ProcessLine(content, line, env) ==
  LET parts == SplitText(line, <<" ", ":", " ">>, 2) IN
    IF Len(parts) # 2 THEN [content EXCEPT !.err = TRUE]
    ELSE AddInputs(content, RewriteOutput(parts[1]),
                   SplitWhitespace(parts[2], <<>>), env)

RECURSIVE ProcessLines(_, _, _)
\* the loop of line 401 over the lines of one fragment
ProcessLines(content, lines, env) ==
  IF lines = <<>> \/ content.err THEN content
  ELSE ProcessLines(ProcessLine(content, Head(lines), env), Tail(lines), env)

\* lines 400-411 for one fragment; opening a missing file raises
ProcessFragment(content, file, env) ==
  IF ~Exists(file) THEN [content EXCEPT !.err = TRUE]
  ELSE ProcessLines(content, TextLines(ReadText(file.data)), env)

RECURSIVE ProcessFragments(_, _, _)
\* the loop of line 397 over the fragments, in the order given
ProcessFragments(content, files, env) ==
  IF files = <<>> \/ content.err THEN content
  ELSE ProcessFragments(ProcessFragment(content, Head(files), env),
                        Tail(files), env)

\* mutant of SortedOutputs: the outputs in the order they were first seen
SortedOutputs_unsorted(content) == content.order

\* line 414: sorted(depfile_content.items()), the keys of the items
SortedOutputs(content) == SortedTexts(DOMAIN content.at)

\* mutant of SortedInputs: the inputs in the order they were first added
SortedInputs_unsorted(inputs) == inputs

\* line 415: sorted(inputs)
SortedInputs(inputs) == SortedTexts(Range(inputs))

\* lines 414-415: the items written, each [output, inputs]
DepfileItems(content) ==
  LET outs == SortedOutputs(content) IN
    [i \in 1..Len(outs) |->
       [output |-> outs[i], inputs |-> SortedInputs(content.at[outs[i]])]]

\* line 415: f'{output}: {" ".join(sorted(inputs))}\n'
DepfileLine(item) ==
  item.output \o <<":", " ">> \o JoinWith(item.inputs, <<" ">>) \o <<"\n">>

\* the text written through the FileWriter of line 413
DepfileText(items) == Concat([i \in 1..Len(items) |-> DepfileLine(items[i])])

----------------------------------------------------------------------------
\* SpecDep: one generate_depfile over the fragments the compiler left.

DepOutputs == {<<"/", "w", "/", "p">>, <<"/", "w", "/", "q">>}
DepInputs == {<<"/", "s", "/", "x">>, <<"/", "r", "/", "y">>,
              <<"/", "u", "/", "z">>}

\* the inputs of one line: none, one path, or two paths in either order
\* (the same path twice included)
DepInputLists == {<<>>} \cup {<<x>> : x \in DepInputs}
                   \cup {<<x, y>> : x \in DepInputs, y \in DepInputs}

\* one line as the compiler writes it
FragmentLine(output, inputs) ==
  output \o <<" ", ":", " ">> \o JoinWith(inputs, <<" ">>) \o <<"\n">>

DepFragments ==
  {RegularFile(FragmentLine(o, l), TRUE) : o \in DepOutputs, l \in DepInputLists}
  \cup {\* the same output under another spelling
        RegularFile(FragmentLine(<<"/", "w", "/", ".", "/", "p">>,
                                 <<<<"/", "u", "/", "z">>>>), TRUE),
        \* a fragment of two lines (whole-module mode)
        RegularFile(FragmentLine(<<"/", "w", "/", "q">>,
                                 <<<<"/", "s", "/", "x">>>>)
                    \o FragmentLine(<<"/", "w", "/", "p">>,
                                    <<<<"/", "r", "/", "y">>>>), TRUE),
        \* a line without the separator
        RegularFile(<<"/", "w", "/", "p", ":", "\n">>, TRUE),
        \* a fragment the compiler did not write
        Absent}

\* the text of a fragment, for ordering the fragments of a bag
FragmentText(file) == IF Exists(file) THEN file.data ELSE <<>>

\* bags of fragments, each written once, as a non-decreasing sequence
DepFragmentBags ==
  {fs \in UNION {[1..n -> DepFragments] : n \in 0..MaxFragments} :
     \A i \in 1..(Len(fs) - 1) :
       ~TextLess(FragmentText(fs[i + 1]), FragmentText(fs[i]))}

\* the SDK is reached through a symlink in the build directory (lines
\* 386-391); /r/y is below its target, the other inputs are not
DepEnvs ==
  {[kind |-> "env", src_dir |-> <<"/", "s">>,
    xcode_paths |-> <<[real |-> <<"/", "r", "/">>,
                       link |-> <<"/", "w", "/", "l", "/">>]>>]}

DepInit ==
  /\ dp_env \in DepEnvs
  /\ dp_frags \in DepFragmentBags
  /\ dp_lines = <<>>
  /\ dp_depfile = Absent
  /\ dp_pc = "start"
  /\ WriterIdle /\ SigIdle /\ MapIdle /\ BuildIdle

Orders(n) ==
  {f \in [1..n -> 1..n] : \A i, j \in 1..n : f[i] = f[j] => i = j}

\* generate_depfile(args, output_file_map), the fragments being read in the
\* order `order` (the order of the records of the output file map)
generate_depfile(order) ==
  /\ dp_pc = "start"
  /\ LET files == [i \in 1..Len(dp_frags) |-> dp_frags[order[i]]]
         content == ProcessFragments(NoContent, files, dp_env)
         items == DepfileItems(content)
         r == FileWriter_exit(dp_depfile, DepfileText(items), NoFault)
     IN IF content.err
          THEN /\ dp_pc' = "raised"
               /\ UNCHANGED <<dp_lines, dp_depfile>>
          ELSE /\ dp_pc' = "done"
               /\ dp_lines' = items
               /\ dp_depfile' = r.file
  /\ UNCHANGED <<dp_env, dp_frags, not_dp>>

DepNext == \E order \in Orders(Len(dp_frags)) : generate_depfile(order)

SpecDep == DepInit /\ [][DepNext]_vars

\* what the lines of the fragments say: for every line, its output made
\* relative and the set of its rewritten inputs
NamedByFragments ==
  UNION {
    {LET parts == SplitText(line, <<" ", ":", " ">>, 2) IN
       [output |-> RewriteOutput(parts[1]),
        inputs |-> {RewriteInput(x, dp_env) :
                      x \in Range(SplitWhitespace(parts[2], <<>>))}] :
       line \in Range(TextLines(ReadText(dp_frags[i].data)))} :
    i \in 1..Len(dp_frags)}

\* the lines written are sorted by output without repetition, every line's
\* inputs are sorted without repetition and are the union of the rewritten
\* inputs of the fragment lines naming that output, and the depfile holds
\* exactly these lines
MergedAndSorted(outputs) ==
  /\ {dp_lines[i].output : i \in 1..Len(dp_lines)} = outputs
  /\ \A i, j \in 1..Len(dp_lines) :
       i < j => TextLess(dp_lines[i].output, dp_lines[j].output)
  /\ \A i \in 1..Len(dp_lines) :
       LET ins == dp_lines[i].inputs IN
         /\ Range(ins) = UNION {l.inputs : l \in {n \in NamedByFragments :
                                        n.output = dp_lines[i].output}}
         /\ \A a, b \in 1..Len(ins) : a < b => TextLess(ins[a], ins[b])
  /\ dp_depfile = RegularFile(DepfileText(dp_lines), TRUE)

\* C9: for each distinct relativized output named by any fragment there is
\* exactly one line, its inputs the sorted duplicate-free union of the
\* rewritten inputs of all fragments naming it; lines are sorted by output;
\* the content is the same for every order of processing the fragments.
C9_OneLinePerNamedOutput ==
  dp_pc = "done" => MergedAndSorted({n.output : n \in NamedByFragments})

\* C9 as amended: the same, for each output for which some fragment names
\* at least one input; an output whose fragments name no input gets no line.
C9_OneLinePerOutputWithInputs ==
  dp_pc = "done" =>
    MergedAndSorted({n.output : n \in {m \in NamedByFragments : m.inputs # {}}})

\* C9 witness: two fragments name the same output with inputs {x, y} and
\* {y, z}, and the line written for it has exactly x, y, z
C9_Witness ==
  /\ dp_pc = "done"
  /\ Len(dp_frags) = 2
  /\ \E a, b \in NamedByFragments :
       /\ a.output = b.output
       /\ Cardinality(a.inputs) = 2 /\ Cardinality(b.inputs) = 2
       /\ Cardinality(a.inputs \cap b.inputs) = 1
  /\ Len(dp_lines) = 1
  /\ Len(dp_lines[1].inputs) = 3

----------------------------------------------------------------------------
\* create_build_cache_dir and ensure_directory
\* (src/toolchain/ios/swiftc.py:66-109)

\* a directory; the cache root has `children`, a generation has `content`
Directory(content) == [kind |-> "dir", content |-> content]
RootDirectory(children) == [kind |-> "dir", children |-> children]

\* os.path.isdir(path)
IsDir(entry) == entry.kind = "dir"

STAMP_EXT == <<".", "s", "t", "a", "m", "p">>

\* line 85: stamp_name = f'{args.module_name}.stamp'
StampName(args) == args.module_name \o STAMP_EXT

\* the build signature main passes to compile_module, line 543
Signature(args) == build_signature(args.env, args.argv)

\* os.listdir(args.derived_data_dir), line 87
ListDir(root) == {n \in DOMAIN root.children : Exists(root.children[n])}

\* mutant of Obsolete: only the stamp is kept
Obsolete_all_but_stamp(name, signature, stamp_name) == name # stamp_name

\* line 88: name not in (build_signature, stamp_name)
Obsolete(name, signature, stamp_name) == name \notin {signature, stamp_name}

\* lines 86-93: every obsolete entry is removed, directories recursively
RemoveObsolete(root, signature, stamp_name) ==
  IF IsDir(root)
    THEN RootDirectory(
           [n \in DOMAIN root.children |->
              IF n \in ListDir(root) /\ Obsolete(n, signature, stamp_name)
                THEN Absent ELSE root.children[n]])
    ELSE root

\* mutant of ensure_directory: the directory is made anew each time
ensure_directory_anew(entry) == [entry |-> Directory({}), exc |-> "none"]

\* ensure_directory(path), lines 105-109, for the entry at `path` in an
\* existing directory: os.makedirs raises when a file is in the way
ensure_directory(entry) ==
  IF IsDir(entry) THEN [entry |-> entry, exc |-> "none"]
  ELSE IF Exists(entry) THEN [entry |-> entry, exc |-> "OSError"]
  ELSE [entry |-> Directory({}), exc |-> "none"]

\* lines 95-96: ensure_directory(os.path.join(derived_data_dir, signature));
\* os.makedirs creates a missing root too and raises when the root is a file
EnsureGeneration(root, signature, names) ==
  IF ~Exists(root)
    THEN [root |-> RootDirectory([n \in names |->
                     IF n = signature THEN Directory({}) ELSE Absent]),
          exc |-> "none"]
  ELSE IF ~IsDir(root) THEN [root |-> root, exc |-> "OSError"]
  ELSE LET r == ensure_directory(root.children[signature]) IN
    [root |-> RootDirectory([root.children EXCEPT ![signature] = r.entry]),
     exc |-> r.exc]

\* lines 98-100: the empty stamp written through FileWriter; opening a
\* directory for reading raises
WriteStamp(root, stamp_name, fault) ==
  LET old == root.children[stamp_name] IN
    IF IsDir(old) THEN [root |-> root, exc |-> "OSError"]
    ELSE LET r == FileWriter_exit(old, <<>>, fault) IN
      [root |-> RootDirectory([root.children EXCEPT ![stamp_name] = r.file]),
       exc |-> r.exc]

\* create_build_cache_dir(args, build_signature) with -derived-data-dir,
\* lines 85-102: the root afterwards and the exception raised, if any
CreatePersistent(root, signature, stamp_name, fault, names) ==
  LET pruned == RemoveObsolete(root, signature, stamp_name)
      made == EnsureGeneration(pruned, signature, names)
  IN IF made.exc # "none" THEN made
     ELSE WriteStamp(made.root, stamp_name, fault)

\* lines 296-300: the three ensure_directory calls of invoke_swift_compiler
\* in build_cache_dir
CacheSubdirs == {"Index.noindex", "ModuleCache.noindex", "PrecompiledHeaders"}

WithCacheSubdirs(root, signature) ==
  RootDirectory([root.children EXCEPT ![signature] =
                   Directory(@.content \cup CacheSubdirs)])

----------------------------------------------------------------------------
\* compile_module, invoke_swift_compiler (src/toolchain/ios/swiftc.py:243-439)

\* mutant of CompilerFailed: only positive return codes count as failure
CompilerFailed_positive(returncode) == returncode > 0

\* line 368: if process.returncode
CompilerFailed(returncode) == returncode # 0

\* line 369: sys.exit(code); the exit status of a process is one byte
ExitStatus(code) == code % 256

\* the exit status after an exception nobody handles
UnhandledException == ExitStatus(1)

\* mutant of LeaveTemporaryDirectory: removed only when nothing was raised
LeaveTemporaryDirectory_on_success(tmp, outcome) ==
  IF outcome.kind = "returned" THEN "removed" ELSE tmp

\* lines 80-81 and 432: leaving the with-clause of the TemporaryDirectory
\* removes it, whatever ended the clause
LeaveTemporaryDirectory(tmp, outcome) == "removed"

\* Popen.returncode: the exit status, or -N when signal N killed the compiler
\* (-2: interrupted)
ReturnCodes == {0, 1, 0 - 2}

BuildEnvs == {A_VERSION :> <<"1">>, A_VERSION :> <<"2">>}
BuildArgv == <<<<"-", "O">>, <<"a">> \o SWIFT>>

BuildArgs ==
  {[kind |-> "args", derived_data_dir |-> d, env |-> e, argv |-> BuildArgv,
    module_name |-> <<"M">>] : d \in BOOLEAN, e \in BuildEnvs}

Stale == <<"s", "t", "a", "l", "e">>

\* the names that occur in the cache root
RootNames ==
  {build_signature(e, BuildArgv) : e \in BuildEnvs}
    \cup {<<"M">> \o STAMP_EXT, Stale}

\* the 'dependencies' files a successful compiler run can leave
BuildFragmentSets ==
  {<<RegularFile(FragmentLine(<<"/", "w", "/", "p">>,
                              <<<<"/", "s", "/", "x">>,
                                <<"/", "r", "/", "y">>>>), TRUE)>>,
   <<RegularFile(FragmentLine(<<"/", "w", "/", "p">>,
                              <<<<"/", "u", "/", "z">>>>), TRUE),
     RegularFile(FragmentLine(<<"/", "w", "/", "p">>,
                              <<<<"/", "s", "/", "x">>>>), TRUE)>>,
   <<Absent>>}

BuildDepEnv == CHOOSE e \in DepEnvs : TRUE

Terminal == {"done", "exited", "raised"}

\* compile_module up to line 432: create_build_cache_dir(args,
\* build_signature) and entering the with-clause
create_build_cache_dir(fault) ==
  /\ bs_pc = "start"
  /\ IF ~bs_args.derived_data_dir
       THEN /\ bs_tmp' = "exists"
            /\ bs_pc' = "with"
            /\ UNCHANGED <<bs_root, bs_status>>
       ELSE LET r == CreatePersistent(bs_root, Signature(bs_args),
                                      StampName(bs_args), fault, RootNames)
            IN /\ bs_root' = r.root
               /\ bs_pc' = IF r.exc = "none" THEN "with" ELSE "raised"
               /\ bs_status' = IF r.exc = "none" THEN bs_status
                               ELSE UnhandledException
               /\ UNCHANGED bs_tmp
  /\ UNCHANGED <<bs_args, bs_outcome, bs_frags, bs_depfile, bs_run, bs_start,
                 bs_prev, not_bs>>

\* invoke_swift_compiler, lines 256-372. `error` is "before" when something
\* raises before the compiler is started, "after" when fix_module_imports
\* raises, "none" otherwise; the compiler ends with `returncode` and, when it
\* succeeds, leaves the fragments `frags`
invoke_swift_compiler(error, returncode, frags) ==
  /\ bs_pc = "with"
  /\ error = "before" => returncode = 0
  /\ error = "after" => ~CompilerFailed(returncode)
  /\ bs_pc' = "leaving"
  /\ IF error = "before"
       THEN /\ bs_outcome' = [kind |-> "exception", ran |-> FALSE, rc |-> 0]
            /\ UNCHANGED <<bs_root, bs_frags>>
       ELSE /\ bs_root' = IF bs_args.derived_data_dir
                            THEN WithCacheSubdirs(bs_root, Signature(bs_args))
                            ELSE bs_root
            /\ IF CompilerFailed(returncode)
                 THEN /\ bs_outcome' = [kind |-> "sysexit", ran |-> TRUE,
                                        rc |-> returncode]
                      /\ UNCHANGED bs_frags
                 ELSE /\ bs_outcome' =
                           [kind |-> IF error = "after" THEN "exception"
                                     ELSE "returned",
                            ran |-> TRUE, rc |-> returncode]
                      /\ bs_frags' = frags
  /\ UNCHANGED <<bs_args, bs_tmp, bs_depfile, bs_status, bs_run, bs_start,
                 bs_prev, not_bs>>

\* the end of the with-clause of line 432, then what ended it goes on: the
\* return to line 439, SystemExit, or the exception
leave_with_clause ==
  /\ bs_pc = "leaving"
  /\ bs_tmp' = IF bs_args.derived_data_dir THEN bs_tmp
               ELSE LeaveTemporaryDirectory(bs_tmp, bs_outcome)
  /\ CASE bs_outcome.kind = "returned" ->
            bs_pc' = "depfile" /\ UNCHANGED bs_status
       [] bs_outcome.kind = "sysexit" ->
            bs_pc' = "exited" /\ bs_status' = ExitStatus(bs_outcome.rc)
       [] OTHER ->
            bs_pc' = "raised" /\ bs_status' = UnhandledException
  /\ UNCHANGED <<bs_args, bs_root, bs_outcome, bs_frags, bs_depfile, bs_run,
                 bs_start, bs_prev, not_bs>>

\* compile_module, line 439: generate_depfile(args, output_file_map)
compile_module_depfile ==
  /\ bs_pc = "depfile"
  /\ LET content == ProcessFragments(NoContent, bs_frags, BuildDepEnv)
         r == FileWriter_exit(bs_depfile.file,
                              DepfileText(DepfileItems(content)), NoFault)
     IN IF content.err
          THEN /\ bs_pc' = "raised"
               /\ bs_status' = UnhandledException
               /\ UNCHANGED bs_depfile
          ELSE /\ bs_pc' = "done"
               /\ bs_status' = 0
               /\ bs_depfile' =
                    [file |-> r.file,
                     opened |-> bs_depfile.opened + (IF r.opened THEN 1 ELSE 0)]
  /\ UNCHANGED <<bs_args, bs_root, bs_tmp, bs_outcome, bs_frags, bs_run,
                 bs_start, bs_prev, not_bs>>

\* the build runs the step again (main, lines 542-543) on what the last
\* invocation left
next_invocation(env) ==
  /\ bs_pc \in Terminal
  /\ bs_run < MaxRuns
  /\ bs_prev' = [kind |-> "run", ok |-> bs_pc = "done", args |-> bs_args,
                 frags |-> bs_frags, root |-> bs_root, depfile |-> bs_depfile]
  /\ bs_args' = [bs_args EXCEPT !.env = env]
  /\ bs_run' = bs_run + 1
  /\ bs_tmp' = "none"
  /\ bs_outcome' = [kind |-> "none"]
  /\ bs_status' = -1
  /\ bs_pc' = "start"
  /\ bs_start' = [root |-> bs_root, depfile |-> bs_depfile]
  /\ UNCHANGED <<bs_root, bs_frags, bs_depfile, not_bs>>

OldGeneration == Directory({"old"})

\* a few cache roots found by the first invocation
BuildRoots ==
  {Absent,
   RootDirectory([n \in RootNames |->
     IF n = Stale THEN OldGeneration ELSE Absent]),
   RootDirectory([n \in RootNames |->
     IF n = Stale THEN Absent
     ELSE IF n = <<"M">> \o STAMP_EXT THEN RegularFile(<<>>, TRUE)
     ELSE OldGeneration])}

BuildStart(roots) ==
  /\ bs_args \in BuildArgs
  /\ bs_root \in roots
  /\ bs_tmp = "none"
  /\ bs_outcome = [kind |-> "none"]
  /\ bs_frags = <<>>
  /\ bs_depfile = [file |-> Absent, opened |-> 0]
  /\ bs_status = -1
  /\ bs_pc = "start"
  /\ bs_run = 1
  /\ bs_start = [root |-> bs_root, depfile |-> bs_depfile]
  /\ bs_prev = [kind |-> "none"]
  /\ WriterIdle /\ SigIdle /\ MapIdle /\ DepIdle

Init == BuildStart(BuildRoots)

Next ==
  \/ \E fault \in {NoFault, OpenFault} : create_build_cache_dir(fault)
  \/ \E error \in {"none", "before", "after"}, returncode \in ReturnCodes,
        frags \in BuildFragmentSets :
       invoke_swift_compiler(error, returncode, frags)
  \/ leave_with_clause
  \/ compile_module_depfile
  \/ \E env \in BuildEnvs : next_invocation(env)

Spec == Init /\ [][Next]_vars

----------------------------------------------------------------------------
\* create_build_cache_dir over every shape of the persistent root

\* what a name in the root can be: nothing, a file, a directory
CacheEntries ==
  {Absent, RegularFile(<<>>, TRUE), RegularFile(<<"x">>, TRUE),
   Directory({}), OldGeneration}

CacheRoots ==
  {Absent, RegularFile(<<>>, TRUE)}
    \cup {RootDirectory(c) : c \in [RootNames -> CacheEntries]}

CacheInit == BuildStart(CacheRoots)

CacheNext == \E fault \in {NoFault, OpenFault} : create_build_cache_dir(fault)

SpecCache == CacheInit /\ [][CacheNext]_vars

\* C2: when create_build_cache_dir returns with a persistent root, the root
\* is a directory that holds exactly the generation directory named by the
\* build signature and the stamp file of the module; a generation directory
\* that was there before is kept with its content
C2_OnlyCurrentGenerationAndStamp ==
  (bs_pc = "with" /\ bs_args.derived_data_dir) =>
    /\ IsDir(bs_root)
    /\ ListDir(bs_root) = {Signature(bs_args), StampName(bs_args)}
    /\ IsDir(bs_root.children[Signature(bs_args)])
    /\ bs_root.children[StampName(bs_args)].kind = "file"
    /\ (IsDir(bs_start.root)
          /\ IsDir(bs_start.root.children[Signature(bs_args)]))
         => bs_root.children[Signature(bs_args)]
              = bs_start.root.children[Signature(bs_args)]

\* C2: a root with a stale entry, another generation and the current
\* generation has been pruned
C2_Witness ==
  /\ bs_pc = "with"
  /\ bs_args.derived_data_dir
  /\ IsDir(bs_start.root)
  /\ bs_start.root.children[Signature(bs_args)] = OldGeneration
  /\ \A n \in RootNames : Exists(bs_start.root.children[n])
  /\ bs_root.children[Stale] = Absent

\* C3: without -derived-data-dir the temporary directory is gone once the
\* invocation has ended, however it ended
C3_TemporaryDirectoryRemoved ==
  (~bs_args.derived_data_dir /\ bs_pc \in Terminal) => bs_tmp # "exists"

\* C3: an invocation whose compiler stage raised after the temporary
\* directory was created has ended and the directory is removed
C3_Witness ==
  /\ ~bs_args.derived_data_dir
  /\ bs_pc = "raised"
  /\ bs_outcome.kind = "exception"
  /\ bs_tmp = "removed"

\* C1 as stated: the invocation exits with the return code of the compiler
C1_ExitsWithCompilerStatus ==
  bs_pc = "exited" => bs_status = bs_outcome.rc

\* C1: after the compiler ended with a nonzero return code the invocation
\* goes nowhere but to its exit, the depfile is as the invocation found it,
\* and the exit status is nonzero: the return code when that is 1..255, and
\* 256 - N when signal N killed the compiler
C1_FailureExitsNonzeroWithoutDepfile ==
  (bs_outcome.kind # "none" /\ bs_outcome.ran /\ bs_outcome.rc # 0) =>
    /\ bs_pc \in {"leaving", "exited"}
    /\ bs_depfile = bs_start.depfile
    /\ bs_pc = "exited" =>
         /\ bs_status # 0
         /\ bs_status = IF bs_outcome.rc > 0 THEN bs_outcome.rc
                        ELSE 256 + bs_outcome.rc

\* C1: a compiler killed by a signal has made the invocation exit
C1_Witness ==
  /\ bs_pc = "exited"
  /\ bs_outcome.rc < 0
  /\ bs_status > 0

\* the invocation repeats the one before it, which succeeded, on a
\* persistent root
RepeatsSuccessfulRun ==
  /\ bs_prev.kind = "run"
  /\ bs_prev.ok
  /\ bs_prev.args = bs_args
  /\ bs_args.derived_data_dir

\* C10: repeating a successful invocation on a persistent root leaves the
\* root as the first invocation left it, and when the compiler leaves the
\* same fragments the depfile is the same and was not opened for writing
C10_RepeatChangesNothing ==
  RepeatsSuccessfulRun =>
    /\ bs_root = bs_prev.root
    /\ (bs_pc = "done" /\ bs_frags = bs_prev.frags)
         => bs_depfile = bs_prev.depfile

\* C10: the repeated invocation has finished and the depfile was written once
C10_Witness ==
  /\ RepeatsSuccessfulRun
  /\ bs_pc = "done"
  /\ bs_frags = bs_prev.frags
  /\ Exists(bs_depfile.file)
  /\ bs_depfile.opened = 1

====
